---------------------------- MODULE Spec2Model ----------------------------
(***************************************************************************)
(* A model of main.py, the 8BitDo firmware downloader: device-name         *)
(* resolution against the fixed catalog, the retrying HTTP request helper, *)
(* the firmware listing (normalisation and sort), the chunked download to  *)
(* the destination file and the main control flow that chains them.        *)
(*                                                                         *)
(* Strings are sequences of one-character strings, so that lower-casing,   *)
(* substring search and similarity are computed and not assumed.           *)
(***************************************************************************)
EXTENDS Integers, Sequences, FiniteSets, TLC

(***************************************************************************)
(* Characters and str.lower() / str.upper() on the ASCII letters.          *)
(***************************************************************************)
UpperLetters ==
  << "A","B","C","D","E","F","G","H","I","J","K","L","M",
     "N","O","P","Q","R","S","T","U","V","W","X","Y","Z" >>

LowerLetters ==
  << "a","b","c","d","e","f","g","h","i","j","k","l","m",
     "n","o","p","q","r","s","t","u","v","w","x","y","z" >>

LetterIndex(letters, c) == CHOOSE i \in 1..Len(letters) : letters[i] = c

IsIn(letters, c) == \E i \in 1..Len(letters) : letters[i] = c

\* str.lower() of one character: an upper-case letter maps to its lower-case
\* letter, every other character is unchanged.
LowerChar(c) ==
  IF IsIn(UpperLetters, c) THEN LowerLetters[LetterIndex(UpperLetters, c)] ELSE c

UpperChar(c) ==
  IF IsIn(LowerLetters, c) THEN UpperLetters[LetterIndex(LowerLetters, c)] ELSE c

\* str.lower()
Lower(s) == [i \in 1..Len(s) |-> LowerChar(s[i])]

\* str.upper(); used only to build query inputs.
Upper(s) == [i \in 1..Len(s) |-> UpperChar(s[i])]

\* needle in hay (Python's substring test; the empty string is in every string)
Contains(hay, needle) ==
  \E i \in 0..(Len(hay) - Len(needle)) :
     SubSeq(hay, i + 1, i + Len(needle)) = needle

Min(x, y) == IF x <= y THEN x ELSE y

(***************************************************************************)
(* The catalog currentValidTypes, in insertion order: key i has code i.    *)
(***************************************************************************)
currentValidKeys ==
  << <<"N","G","C"," ","M","o","d","k","i","t">>,
     <<"U","l","t","i","m","a","t","e"," ","2","C"," ","B","l","u","e","t","o","o","t","h">>,
     <<"N","G","C"," ","A","d","a","p","t","e","r">>,
     <<"S","a","t","u","r","n"," ","A","d","a","p","t","e","r">>,
     <<"U","l","t","i","m","a","t","e"," ","M","G">>,
     <<"U","l","t","i","m","a","t","e"," ","M","G","X">>,
     <<"M","3","0"," ","W","i","r","e","d"," ","f","o","r"," ","X","b","o","x">>,
     <<"U","l","t","i","m","a","t","e"," ","C"," ","B","l","u","e","t","o","o","t","h">>,
     <<"M","i","r","c","o">>,
     <<"R","e","t","r","o"," ","R","e","c","e","i","v","e","r"," ","f","o","r"," ","P","S">>,
     <<"N","E","O","G","E","O">>,
     <<"A","r","c","a","d","e"," ","S","t","i","c","k"," ","f","o","r"," ","X","b","o","x">>,
     <<"N","6","4"," ","M","o","d","k","i","t">>,
     <<"U","l","t","i","m","a","t","e"," ","C">>,
     <<"U","l","t","i","m","a","t","e"," ","C"," ","W","i","r","e","d">>,
     <<"U","l","t","i","m","a","t","e"," ","2",".","4","g">>,
     <<"U","l","t","i","m","a","t","e"," ","2",".","4","g"," ","A","d","a","p","t","e","r">>,
     <<"U","l","t","i","m","a","t","e">>,
     <<"U","l","t","i","m","a","t","e"," ","A","d","a","p","t","e","r">>,
     <<"U","l","t","i","m","a","t","e"," ","W","i","r","e","d">>,
     <<"L","i","t","e"," ","2">>,
     <<"L","i","t","e"," ","S","E">>,
     <<"U","l","t","i","m","a","t","e"," ","f","o","r"," ","X","b","o","x">>,
     <<"P","r","o"," ","2"," ","W","i","r","e","d">>,
     <<"U","S","B"," ","A","d","a","p","t","e","r"," ","2">>,
     <<"P","r","o"," ","2"," ","f","o","r"," ","X","b","o","x">>,
     <<"P","r","o"," ","2">>,
     <<"A","r","c","a","d","e"," ","S","t","i","c","k">>,
     <<"A","r","c","a","d","e"," ","S","t","i","c","k"," ","R","e","c","e","i","v","e","r">>,
     <<"S","N","3","0"," ","P","r","o"," ","f","o","r"," ","A","n","d","r","o","i","d">>,
     <<"Z","e","r","o"," ","2"," ","g","a","m","e","p","a","d">>,
     <<"L","i","t","e"," ","g","a","m","e","p","a","d">>,
     <<"S","3","0"," ","M","o","d","k","i","t">>,
     <<"D","o","g","b","o","n","e"," ","M","o","d","k","i","t">>,
     <<"S","N","3","0"," ","P","l","u","s"," ","+">>,
     <<"R","e","t","r","o"," ","R","e","c","e","i","v","e","r"," ","f","o","r"," ","M","D","/","G","e","n","e","s","i","s">>,
     <<"M","3","0">>,
     <<"G","B","r","o","s","."," ","A","p","d","a","t","e","r">>,
     <<"N","3","0"," ","P","r","o"," ","2">>,
     <<"S","F","3","0"," ","P","r","o">>,
     <<"N","3","0"," ","A","r","c","a","d","e"," ","S","t","i","c","k">>,
     <<"F","C","3","0"," ","P","r","o">>,
     <<"F","3","0">>,
     <<"N","3","0">>,
     <<"S","N","3","0">>,
     <<"S","F","3","0">>,
     <<"N","6","4">>,
     <<"F","3","0"," ","A","r","c","a","d","e"," ","S","t","i","c","k">>,
     <<"U","S","B"," ","A","p","d","a","t","e","r">>,
     <<"C","l","a","s","s","i","c"," ","R","R">>,
     <<"N","E","S"," ","R","R">>,
     <<"S","F","C"," ","R","R">>,
     <<"P","3","0"," ","M","o","d","k","i","t">>,
     <<"S","N","3","0"," ","M","o","d","k","i","t">>,
     <<"N","3","0"," ","M","o","d","k","i","t">>,
     <<"M","3","0"," ","M","o","d","k","i","t">>,
     <<"U","S","B"," ","A","p","d","a","t","e","r"," ","f","o","r"," ","P","S"," ","c","l","a","s","s","i","c">> >>

currentValidCodes ==
  << 91, 96, 92, 99, 100, 79, 69, 66, 60, 59, 57, 51,
     53, 48, 50, 43, 44, 42, 42, 45, 47, 46, 40, 37,
     39, 37, 33, 34, 35, 31, 29, 28, 27, 26, 25, 21,
     22, 20, 19, 9, 4, 13, 2, 18, 17, 3, 10, 5,
     8, 6, 7, 7, 24, 16, 15, 14, 8 >>

NumKeys == Len(currentValidKeys)

KeyIndexes == 1..NumKeys

\* name in currentValidTypes
InCatalog(name) == \E i \in KeyIndexes : currentValidKeys[i] = name

\* the position of a key of the catalog
KeyIndex(name) == CHOOSE i \in KeyIndexes : currentValidKeys[i] = name

\* currentValidTypes[name]
CodeOf(name) == currentValidCodes[KeyIndex(name)]

LowerKeys == [i \in KeyIndexes |-> Lower(currentValidKeys[i])]

\* lower_map = {k.lower(): k for k in keys}: a later key replaces an earlier
\* one with the same lower-case form.
InLowerMap(lname) == \E i \in KeyIndexes : LowerKeys[i] = lname

lower_map(lname) ==
  LET hits == {i \in KeyIndexes : LowerKeys[i] = lname}
  IN  currentValidKeys[CHOOSE i \in hits : \A j \in hits : j <= i]

\* partial = [k for k in keys if name.lower() in k.lower()], as key positions
\* in catalog order
PartialMatches(name) ==
  LET lname == Lower(name)
  IN  SelectSeq([i \in KeyIndexes |-> i], LAMBDA i : Contains(LowerKeys[i], lname))

(***************************************************************************)
(* difflib.get_close_matches(name, keys, n=3, cutoff=0.6).  For every key  *)
(* x it builds SequenceMatcher(a = x, b = name) and keeps x when           *)
(* real_quick_ratio(), quick_ratio() and ratio() are all >= cutoff.        *)
(* A ratio is 2.0 * matches / length (1.0 when length = 0); the cutoff is  *)
(* CutoffNum / CutoffDen.                                                  *)
(***************************************************************************)
CutoffNum == 6

CutoffDen == 10

MaxSuggestions == 3

\* _calculate_ratio(matches, length) >= cutoff
RatioAtLeastCutoff(matches, length) ==
  IF length = 0 THEN TRUE
  ELSE 2 * matches * CutoffDen >= CutoffNum * length

CountIn(s, c) == Cardinality({i \in 1..Len(s) : s[i] = c})

\* quick_ratio(): the size of the multiset intersection of a and b
QuickMatches(a, b) ==
  Cardinality({i \in 1..Len(a) : CountIn(SubSeq(a, 1, i), a[i]) <= CountIn(b, a[i])})

\* a[i:i+k] == b[j:j+k] (0-based offsets, as in difflib)
SameBlock(a, b, i, j, k) == SubSeq(a, i + 1, i + k) = SubSeq(b, j + 1, j + k)

HasBlock(a, b, alo, ahi, blo, bhi, k) ==
  \E i \in alo..(ahi - k) : \E j \in blo..(bhi - k) : SameBlock(a, b, i, j, k)

\* the size of the longest block common to a[alo:ahi] and b[blo:bhi]
LongestSize(a, b, alo, ahi, blo, bhi) ==
  LET sizes == {k \in 0..Min(ahi - alo, bhi - blo) : HasBlock(a, b, alo, ahi, blo, bhi, k)}
  IN  CHOOSE k \in sizes : \A m \in sizes : m <= k

RECURSIVE MatchedSize(_, _, _, _, _, _)
\* the total size of get_matching_blocks(): find_longest_match returns the
\* longest block that starts earliest in a and, of those, earliest in b; the
\* pieces to its left and to its right are matched in the same way.
MatchedSize(a, b, alo, ahi, blo, bhi) ==
  IF alo >= ahi \/ blo >= bhi THEN 0
  ELSE
    LET k == LongestSize(a, b, alo, ahi, blo, bhi)
    IN  IF k = 0 THEN 0
        ELSE
          LET i == CHOOSE x \in alo..(ahi - k) :
                     /\ \E j \in blo..(bhi - k) : SameBlock(a, b, x, j, k)
                     /\ \A y \in alo..(x - 1) :
                          ~ \E j \in blo..(bhi - k) : SameBlock(a, b, y, j, k)
              j == CHOOSE x \in blo..(bhi - k) :
                     /\ SameBlock(a, b, i, x, k)
                     /\ \A y \in blo..(x - 1) : ~ SameBlock(a, b, i, y, k)
          IN  k + MatchedSize(a, b, alo, i, blo, j)
                + MatchedSize(a, b, i + k, ahi, j + k, bhi)

\* x is close to name
IsCloseMatch(x, name) ==
  LET length == Len(x) + Len(name)
  IN  /\ RatioAtLeastCutoff(Min(Len(x), Len(name)), length)
      /\ RatioAtLeastCutoff(QuickMatches(x, name), length)
      /\ RatioAtLeastCutoff(MatchedSize(x, name, 0, Len(x), 0, Len(name)), length)

\* the positions of the keys get_close_matches scores at or above the cutoff
CloseKeys(name) == {i \in KeyIndexes : IsCloseMatch(currentValidKeys[i], name)}

\* len(matches): at most n=3 of the close keys are returned
NumCloseMatches(name) == Min(MaxSuggestions, Cardinality(CloseKeys(name)))

(***************************************************************************)
(* resolve_device(name): exact, case-insensitive, unique partial match,    *)
(* and otherwise a report of the close matches followed by sys.exit(1).    *)
(* The result is a record: found (returned or exited), the step that       *)
(* decided, the key and code returned, the number of suggestions printed.  *)
(***************************************************************************)
Resolved(step, k) ==
  [found |-> TRUE, step |-> step, name |-> k, code |-> CodeOf(k), suggestions |-> 0]

NotResolved(n) ==
  [found |-> FALSE, step |-> "fuzzy", name |-> << >>, code |-> 0, suggestions |-> n]

\* resolve_device, were it to return the first close match it finds
resolve_device_autoselect(name) ==
  IF InCatalog(name) THEN Resolved("exact", name)
  ELSE IF InLowerMap(Lower(name)) THEN Resolved("lower", lower_map(Lower(name)))
  ELSE LET partial == PartialMatches(name)
       IN  IF Len(partial) = 1 THEN Resolved("partial", currentValidKeys[partial[1]])
           ELSE IF CloseKeys(name) # {}
                THEN Resolved("fuzzy", currentValidKeys[CHOOSE i \in CloseKeys(name) : TRUE])
                ELSE NotResolved(0)

\* resolve_device, were it to take the first partial match of several
resolve_device_first_partial(name) ==
  IF InCatalog(name) THEN Resolved("exact", name)
  ELSE IF InLowerMap(Lower(name)) THEN Resolved("lower", lower_map(Lower(name)))
  ELSE LET partial == PartialMatches(name)
       IN  IF Len(partial) >= 1 THEN Resolved("partial", currentValidKeys[partial[1]])
           ELSE NotResolved(NumCloseMatches(name))

\* resolve_device, were it to look for partial matches first and to give up
\* on an ambiguous one before trying the exact steps
resolve_device_ambiguity_first(name) ==
  LET partial == PartialMatches(name)
  IN  IF Len(partial) = 1 THEN Resolved("partial", currentValidKeys[partial[1]])
      ELSE IF Len(partial) > 1 THEN NotResolved(NumCloseMatches(name))
      ELSE IF InCatalog(name) THEN Resolved("exact", name)
      ELSE IF InLowerMap(Lower(name)) THEN Resolved("lower", lower_map(Lower(name)))
      ELSE NotResolved(NumCloseMatches(name))

\* resolve_device without its case-insensitive step
resolve_device_no_lower(name) ==
  IF InCatalog(name) THEN Resolved("exact", name)
  ELSE LET partial == PartialMatches(name)
       IN  IF Len(partial) = 1 THEN Resolved("partial", currentValidKeys[partial[1]])
           ELSE NotResolved(NumCloseMatches(name))

resolve_device(name) ==
  IF InCatalog(name) THEN Resolved("exact", name)
  ELSE IF InLowerMap(Lower(name)) THEN Resolved("lower", lower_map(Lower(name)))
  ELSE LET partial == PartialMatches(name)
       IN  IF Len(partial) = 1 THEN Resolved("partial", currentValidKeys[partial[1]])
           ELSE NotResolved(NumCloseMatches(name))

(***************************************************************************)
(* Bounds of the model.                                                    *)
(***************************************************************************)
\* the longest fragment of a catalog key tried as a query
MaxQueryLen == 3

\* request_with_retry is checked for max_retries in 1..MaxRetriesBound and
\* backoff in 1..MaxBackoff
MaxRetriesBound == 5

MaxBackoff == 2

\* the longest "list" of a listing payload
MaxEntries == 3

\* the longest "list" of a listing payload in a whole run of main
MainMaxEntries == 2

\* --firmware takes the values -1..MaxFirmwareArg
MaxFirmwareArg == 3

\* the most chunks a download stream yields before it ends or fails
MaxChunks == 2

\* the same in a whole run of main
MainMaxChunks == 1

(***************************************************************************)
(* The state of the program.                                               *)
(***************************************************************************)
VARIABLES
  pc,           \* where the run is: "main", "request", "response", "raised",
                \* "select", "stream", "exit"
  args,         \* the parsed command line (parse_args)
  device_name,  \* main: the resolved catalog key
  device_type,  \* main: its type code
  suggestions,  \* resolve_device: how many close matches it printed
  method,       \* request_with_retry: "POST" (listing) or "GET" (download)
  max_retries,  \* request_with_retry: max_retries
  backoff,      \* request_with_retry: backoff
  attempt,      \* request_with_retry: the loop variable, 0 outside the call
  sleeps,       \* the delays passed to time.sleep by the current call, in order
  last,         \* the outcome of the latest requests.request of the call; in
                \* "raised" its exception (HTTPError for a status >= 500) is
                \* what the call has raised
  requests,     \* how many requests were issued, per method
  payload,      \* fetch_firmware: the decoded body of the listing response
  firmwares,    \* fetch_firmware / main: the normalised, sorted records
  selected_fw,  \* main: the record chosen for download
  fw_dir,       \* whether os.makedirs created fw/<device_name>
  exit_code,    \* the process exit status once pc = "exit"
  traceback,    \* whether the run ended in an uncaught exception
  calls,        \* main: the functions it has called so far, in order
  stdout,       \* the lines printed so far, in order
  length,       \* download: the content-length header, then its int()
  block_size,   \* download: block_size
  f,            \* download: the file object of out_path: "none" before
                \* open(), then "open", then "closed"
  file,         \* the file at out_path: whether it exists, and its bytes
  size,         \* download: size, the bytes written so far
  received,     \* the chunks response.iter_content has yielded so far
  io_error      \* the exception raised in download after its request, if any:
                \* by int(), open(), iter_content, f.write or the closing

vars ==
  << pc, args, device_name, device_type, suggestions, method, max_retries, backoff, attempt,
     sleeps, last, requests, payload, firmwares, selected_fw, fw_dir,
     exit_code, traceback, calls, stdout, length, block_size, f, file, size, received,
     io_error >>

mainVars == << args, device_name, device_type, suggestions >>

callVars == << method, max_retries, backoff, attempt, sleeps, last >>

listVars == << payload, firmwares, selected_fw, fw_dir >>

exitVars == << exit_code, traceback >>

fileVars == << length, block_size, f, file, size, received, io_error >>

(***************************************************************************)
(* Values.                                                                 *)
(***************************************************************************)
NoName == << >>

\* an outcome of requests.request: an exception, or a response with a status
Raises(e) == [exc |-> e, status |-> 0]

Responds(s) == [exc |-> "none", status |-> s]

NoOutcome == [exc |-> "none", status |-> 0]

Statuses == {200, 404, 499, 500, 503}

\* Timeout and ConnectionError are caught by the retry loop; TooManyRedirects
\* stands for the RequestExceptions that are not.
NetworkErrors == {"Timeout", "ConnectionError", "TooManyRedirects"}

NetOutcomes == {Raises(e) : e \in NetworkErrors} \cup {Responds(s) : s \in Statuses}

\* --firmware absent (None)
NoFirmwareArg == [given |-> FALSE, value |-> 0]

FirmwareArg(i) == [given |-> TRUE, value |-> i]

NoPayload == [kind |-> "none", list |-> << >>]

NoRecord == [has_date |-> FALSE, date |-> 0, src |-> 0]

\* response.headers.get("content-length"): None, or the text of the header:
\* empty, the digits of an integer, or anything else
NoHeader == [kind |-> "absent", value |-> 0]

EmptyHeader == [kind |-> "empty", value |-> 0]

IntHeader(n) == [kind |-> "int", value |-> n]

BadHeader == [kind |-> "bad", value |-> 0]

\* out_path: no such file, or a file with its bytes
NoFile == [exists |-> FALSE, bytes |-> << >>]

FileOf(b) == [exists |-> TRUE, bytes |-> b]

(***************************************************************************)
(* print, sys.exit(code), return from main, and an uncaught exception.     *)
(* A printed line is recorded by its fixed text; its formatted fields are  *)
(* left out.                                                               *)
(***************************************************************************)
Output(lines) == stdout' = stdout \o lines

Exit(code) ==
  /\ pc' = "exit"
  /\ exit_code' = code
  /\ traceback' = FALSE

Uncaught ==
  /\ pc' = "exit"
  /\ exit_code' = 1
  /\ traceback' = TRUE

(***************************************************************************)
(* main, lines 278-289: the early exits and resolve_device.                *)
(***************************************************************************)
\* the call request_with_retry(m, ...) with the default max_retries and
\* backoff begins: the loop starts at attempt 1
BeginRequest(m) ==
  /\ pc' = "request"
  /\ method' = m
  /\ attempt' = 1
  /\ sleeps' = << >>
  /\ last' = NoOutcome
  /\ UNCHANGED << max_retries, backoff >>

\* list_devices prints one line per catalog key
ListDevices ==
  /\ pc = "main"
  /\ args.list_devices
  /\ Output([n \in KeyIndexes |-> "{name} (Type {t})"])
  /\ Exit(0)
  /\ UNCHANGED << mainVars, callVars, requests, listVars, calls, fileVars >>

MissingDevice ==
  /\ pc = "main"
  /\ ~ args.list_devices
  /\ args.device = NoName
  /\ Output(<< "Error: --device is required (unless --list-devices)" >>)
  /\ Exit(1)
  /\ UNCHANGED << mainVars, callVars, requests, listVars, calls, fileVars >>

\* lines 289-290: resolve_device returns, and fetch_firmware issues its
\* request
ResolveFound ==
  /\ pc = "main"
  /\ ~ args.list_devices
  /\ args.device # NoName
  /\ LET r == resolve_device(args.device)
     IN  /\ r.found
         /\ device_name' = r.name
         /\ device_type' = r.code
  /\ calls' = calls \o << "resolve_device", "fetch_firmware" >>
  /\ BeginRequest("POST")
  /\ UNCHANGED << args, suggestions, requests, listVars, exitVars, stdout, fileVars >>

\* lines 175-183: the close matches, if any, are printed and the run exits
NotFoundLines(n) ==
  IF n > 0
    THEN << "Device not found. Did you mean:" >> \o [i \in 1..n |-> "  - {m}"]
    ELSE << "Device not found. Use --list-devices to see valid names." >>

ResolveNotFound ==
  /\ pc = "main"
  /\ ~ args.list_devices
  /\ args.device # NoName
  /\ LET r == resolve_device(args.device)
     IN  /\ ~ r.found
         /\ suggestions' = r.suggestions
         /\ Output(NotFoundLines(r.suggestions))
  /\ calls' = Append(calls, "resolve_device")
  /\ Exit(1)
  /\ UNCHANGED << args, device_name, device_type, callVars, requests, listVars, fileVars >>

(***************************************************************************)
(* request_with_retry, lines 79-102.  One action per way an iteration of   *)
(* the loop can end; the outcome of requests.request is the input.         *)
(***************************************************************************)
\* the server-error test, were it to start at 400
IsServerError_From400(o) == o.exc = "none" /\ o.status >= 400

\* the exceptions the except clause catches: Timeout, ConnectionError, and
\* the HTTPError raised for a status >= 500
ServerErrorFloor == 500

\* the server-error test, were 500 itself let through
IsServerError_Above500(o) == o.exc = "none" /\ o.status > ServerErrorFloor

IsServerError(o) == o.exc = "none" /\ o.status >= ServerErrorFloor

IsCaught(o) == o.exc \in {"Timeout", "ConnectionError"} \/ IsServerError(o)

RECURSIVE Pow2(_)
Pow2(n) == IF n = 0 THEN 1 ELSE 2 * Pow2(n - 1)

\* the delay, were the exponent the attempt number
Delay_ExponentOff(b, a) == b * Pow2(a)

\* delay = backoff * (2 ** (attempt - 1))
Delay(b, a) == b * Pow2(a - 1)

\* the last-attempt test, were it one attempt late
IsLastAttempt_Late(a, m) == a = m + 1

\* if attempt == max_retries: the failure is re-raised instead of retried
IsLastAttempt(a, m) == a = m

\* for attempt in range(1, max_retries + 1): the loop has an iteration to run
InLoop == pc = "request" /\ attempt <= max_retries

Issue == requests' = [requests EXCEPT ![method] = @ + 1]

\* return response (status < 500)
RequestReturns ==
  /\ InLoop
  /\ \E o \in NetOutcomes :
       /\ o.exc = "none"
       /\ ~ IsServerError(o)
       /\ last' = o
  /\ Issue
  /\ pc' = "response"
  /\ UNCHANGED << mainVars, method, max_retries, backoff, attempt, sleeps,
                  listVars, exitVars, calls, stdout, fileVars >>

\* a caught failure before the last attempt: sleep, then the next iteration
RequestRetries ==
  /\ InLoop
  /\ ~ IsLastAttempt(attempt, max_retries)
  /\ \E o \in NetOutcomes :
       /\ IsCaught(o)
       /\ last' = o
  /\ Issue
  /\ sleeps' = Append(sleeps, Delay(backoff, attempt))
  /\ attempt' = attempt + 1
  /\ Output(<< "Request failed ({type}), retrying in {delay}s... [{attempt}/{max_retries}]" >>)
  /\ UNCHANGED << pc, mainVars, method, max_retries, backoff, listVars, exitVars,
                  calls, fileVars >>

\* a caught failure at attempt == max_retries: re-raised to the caller
RequestExhausted ==
  /\ InLoop
  /\ IsLastAttempt(attempt, max_retries)
  /\ \E o \in NetOutcomes :
       /\ IsCaught(o)
       /\ last' = o
  /\ Issue
  /\ pc' = "raised"
  /\ Output(<< "Request failed after {max_retries} attempts." >>)
  /\ UNCHANGED << mainVars, method, max_retries, backoff, attempt, sleeps,
                  listVars, exitVars, calls, fileVars >>

\* an exception the except clause does not name leaves the call at once
RequestUncaught ==
  /\ InLoop
  /\ \E o \in NetOutcomes :
       /\ o.exc # "none"
       /\ ~ IsCaught(o)
       /\ last' = o
  /\ Issue
  /\ pc' = "raised"
  /\ UNCHANGED << mainVars, method, max_retries, backoff, attempt, sleeps,
                  listVars, exitVars, calls, stdout, fileVars >>

request_with_retry ==
  \/ RequestReturns
  \/ RequestRetries
  \/ RequestExhausted
  \/ RequestUncaught

(***************************************************************************)
(* fetch_firmware, lines 190-233.                                          *)
(*                                                                         *)
(* An entry of payload["list"] is a record: type is "dict", "str" or "num" *)
(* (any other JSON value); a "str" entry carries what json.loads makes of  *)
(* its text: "dict", "num" (a value that is no object) or "fail"           *)
(* (JSONDecodeError).  has_date and date are the "date" member of the      *)
(* object an entry is or encodes; dates are integers.  Every object is     *)
(* taken to have its "fileName" and "filePathName" members.  A record of   *)
(* firmwares also carries src, the position in the list of the entry it    *)
(* comes from: it tells apart records that are otherwise equal.            *)
(***************************************************************************)
MaxDate == 1

Dates == (0 - 1)..MaxDate

Objects == {[has_date |-> FALSE, date |-> 0]} \cup {[has_date |-> TRUE, date |-> d] : d \in Dates}

DictEntry(o) == [type |-> "dict", decodes |-> "-", has_date |-> o.has_date, date |-> o.date]

\* the string json.dumps(o)
EncodedEntry(o) == [type |-> "str", decodes |-> "dict", has_date |-> o.has_date, date |-> o.date]

\* a string that is not JSON
BadString == [type |-> "str", decodes |-> "fail", has_date |-> FALSE, date |-> 0]

\* a string that is the JSON text of a number
NumberString == [type |-> "str", decodes |-> "num", has_date |-> FALSE, date |-> 0]

Number == [type |-> "num", decodes |-> "-", has_date |-> FALSE, date |-> 0]

Entries ==
  {DictEntry(o) : o \in Objects} \cup {EncodedEntry(o) : o \in Objects}
    \cup {BadString, NumberString, Number}

\* the sequences over S of length at most n
SeqsUpTo(S, n) == UNION {[1..k -> S] : k \in 0..n}

ListPayload(l) == [kind |-> "list", list |-> l]

\* bodies that are not a JSON object with a "list" member that is a list:
\* not JSON at all; a number or null; an object without "list"; "list" not a list
OtherPayloads ==
  {[kind |-> k, list |-> << >>] : k \in {"invalid_json", "scalar", "no_list", "list_not_list"}}

Payloads == OtherPayloads \cup {ListPayload(l) : l \in SeqsUpTo(Entries, MaxEntries)}

\* response.raise_for_status(): HTTPError for a 4xx or 5xx status
RaisesForStatus(s) == s >= 400 /\ s < 600

\* json.loads(fw) of a "str" entry
json_loads(fw) ==
  IF fw.decodes = "fail" THEN [ok |-> FALSE, value |-> fw]
  ELSE [ok |-> TRUE,
        value |-> [type |-> fw.decodes, decodes |-> "-",
                   has_date |-> fw.has_date, date |-> fw.date]]

\* the record appended for the object fw found at position i of the list
Record(fw, i) == [has_date |-> fw.has_date, date |-> fw.date, src |-> i]

\* the loop body, were it to keep whatever json.loads returns
NormaliseEntry_KeepsDecoded(fw, i) ==
  LET dec == IF fw.type = "str" THEN json_loads(fw) ELSE [ok |-> TRUE, value |-> fw]
  IN  IF ~ dec.ok THEN << >>
      ELSE IF dec.value.type = "dict" \/ fw.type = "str" THEN << Record(dec.value, i) >>
      ELSE << >>

\* one pass of the loop body, lines 220-226: what entry i adds to firmwares
NormaliseEntry(fw, i) ==
  LET dec == IF fw.type = "str" THEN json_loads(fw) ELSE [ok |-> TRUE, value |-> fw]
  IN  IF ~ dec.ok THEN << >>
      ELSE IF dec.value.type = "dict" THEN << Record(dec.value, i) >>
      ELSE << >>

RECURSIVE NormaliseFrom(_, _)
\* the loop of lines 219-226 from position i on
NormaliseFrom(list, i) ==
  IF i > Len(list) THEN << >>
  ELSE NormaliseEntry(list[i], i) \o NormaliseFrom(list, i + 1)

Normalise(list) == NormaliseFrom(list, 1)

\* key=lambda fw: fw.get("date", 0)
DateKey(fw) == IF fw.has_date THEN fw.date ELSE 0

Reverse(s) == [i \in 1..Len(s) |-> s[Len(s) + 1 - i]]

\* x put into the ascending sequence s after every element whose key is not
\* greater than its own
InsertByKey(s, x) ==
  LET n == Cardinality({i \in 1..Len(s) : DateKey(s[i]) <= DateKey(x)})
  IN  SubSeq(s, 1, n) \o << x >> \o SubSeq(s, n + 1, Len(s))

RECURSIVE SortAscending(_)
\* a stable ascending sort by DateKey
SortAscending(s) ==
  IF s = << >> THEN << >>
  ELSE InsertByKey(SortAscending(SubSeq(s, 1, Len(s) - 1)), s[Len(s)])

\* the sort, were it an ascending sort followed by a reversal
SortByDateDescending_Unstable(s) == Reverse(SortAscending(s))

\* list.sort(key=..., reverse=True): the list is reversed, sorted ascending
\* (stable) and reversed again
SortByDateDescending(s) == Reverse(SortAscending(Reverse(s)))

\* the caller is done with the call: its locals are gone
EndRequest ==
  /\ attempt' = 0
  /\ sleeps' = << >>
  /\ last' = NoOutcome
  /\ UNCHANGED << method, max_retries, backoff >>

AfterListingRequest == method = "POST" /\ pc \in {"response", "raised"}

ListingResponseOk == method = "POST" /\ pc = "response" /\ ~ RaisesForStatus(last.status)

\* lines 196-206: the request raised, or raise_for_status() did
FetchRequestFailed ==
  /\ AfterListingRequest
  /\ pc = "response" => RaisesForStatus(last.status)
  /\ Output(<< "API request failed: {e}" >>)
  /\ Exit(1)
  /\ UNCHANGED << mainVars, callVars, requests, listVars, calls, fileVars >>

\* lines 208-212
FetchInvalidJson(bodies) ==
  /\ ListingResponseOk
  /\ \E p \in bodies :
       /\ p.kind = "invalid_json"
       /\ payload' = p
       /\ Output(<< "API returned invalid JSON." >>)
       /\ Exit(1)
       /\ UNCHANGED << mainVars, callVars, requests, firmwares, selected_fw, fw_dir,
                       calls, fileVars >>

\* line 214 on a body that is no container: TypeError, caught nowhere
FetchNotContainer(bodies) ==
  /\ ListingResponseOk
  /\ \E p \in bodies :
       /\ p.kind = "scalar"
       /\ payload' = p
       /\ Uncaught
       /\ UNCHANGED << mainVars, callVars, requests, firmwares, selected_fw, fw_dir,
                       calls, stdout, fileVars >>

\* lines 214-216
FetchBadFormat(bodies) ==
  /\ ListingResponseOk
  /\ \E p \in bodies :
       /\ p.kind \in {"no_list", "list_not_list"}
       /\ payload' = p
       /\ Output(<< "Unexpected API response format." >>)
       /\ Exit(1)
       /\ UNCHANGED << mainVars, callVars, requests, firmwares, selected_fw, fw_dir,
                       calls, fileVars >>

\* the emptiness test, were it a test for None
IsEmptyList_Never(fs) == FALSE

\* if not firmwares:
IsEmptyList(fs) == Len(fs) = 0

\* lines 218-230: nothing survives normalisation
FetchEmpty(bodies) ==
  /\ ListingResponseOk
  /\ \E p \in bodies :
       /\ p.kind = "list"
       /\ IsEmptyList(Normalise(p.list))
       /\ payload' = p
       /\ Output(<< "Firmware list is empty." >>)
       /\ Exit(1)
       /\ UNCHANGED << mainVars, callVars, requests, firmwares, selected_fw, fw_dir,
                       calls, fileVars >>

\* lines 218-233: the sorted records are returned to main
FetchReturns(bodies) ==
  /\ ListingResponseOk
  /\ \E p \in bodies :
       /\ p.kind = "list"
       /\ ~ IsEmptyList(Normalise(p.list))
       /\ payload' = p
       /\ firmwares' = SortByDateDescending(Normalise(p.list))
       /\ pc' = "select"
       /\ EndRequest
       /\ UNCHANGED << mainVars, requests, selected_fw, fw_dir, exitVars,
                       calls, stdout, fileVars >>

\* fetch_firmware once request_with_retry is over, for a body among bodies
fetch_firmware(bodies) ==
  \/ FetchRequestFailed
  \/ FetchInvalidJson(bodies)
  \/ FetchNotContainer(bodies)
  \/ FetchBadFormat(bodies)
  \/ FetchEmpty(bodies)
  \/ FetchReturns(bodies)

(***************************************************************************)
(* main, lines 292-326: --list-firmware, the choice of a record, and the   *)
(* call of download.                                                       *)
(***************************************************************************)
\* fw['date'] raises KeyError on a record without "date"
HasDate(fw) == fw.has_date

\* how many records are printed before one without "date" raises KeyError
RECURSIVE LeadingDated(_)
LeadingDated(fs) ==
  IF fs = << >> \/ ~ HasDate(Head(fs)) THEN 0 ELSE 1 + LeadingDated(Tail(fs))

\* lines 292-295 print every record
ListFirmware ==
  /\ pc = "select"
  /\ args.list_firmware
  /\ Output([i \in 1..LeadingDated(firmwares) |-> "{i:2}. {fileName} ({date})"])
  /\ IF \A i \in 1..Len(firmwares) : HasDate(firmwares[i]) THEN Exit(0) ELSE Uncaught
  /\ UNCHANGED << mainVars, callVars, requests, listVars, calls, fileVars >>

\* if args.firmware: (None and 0 are both false)
FirmwareArgGiven == args.firmware.given /\ args.firmware.value # 0

\* index < 0 or index >= len(firmwares), with index = args.firmware - 1
IndexOutOfRange(index, n) == index < 0 \/ index >= n

\* lines 297-301
InvalidIndex ==
  /\ pc = "select"
  /\ ~ args.list_firmware
  /\ FirmwareArgGiven
  /\ IndexOutOfRange(args.firmware.value - 1, Len(firmwares))
  /\ Output(<< "Invalid firmware index." >>)
  /\ Exit(1)
  /\ UNCHANGED << mainVars, callVars, requests, listVars, calls, fileVars >>

\* firmwares[index], or firmwares[0] when no index is given (lines 302, 308);
\* Python's positions count from 0
Selected ==
  IF FirmwareArgGiven THEN firmwares[(args.firmware.value - 1) + 1] ELSE firmwares[1]

\* the selection, were --list-firmware not to return
CanSelect_AfterListing ==
  /\ pc = "select"
  /\ FirmwareArgGiven => ~ IndexOutOfRange(args.firmware.value - 1, Len(firmwares))

CanSelect ==
  /\ pc = "select"
  /\ ~ args.list_firmware
  /\ FirmwareArgGiven => ~ IndexOutOfRange(args.firmware.value - 1, Len(firmwares))

\* lines 302-312: firmwares[0] of an empty list raises IndexError, and
\* formatting selected_fw['date'] raises KeyError when it is absent
SelectRaises ==
  /\ CanSelect
  /\ IF Len(firmwares) = 0
       THEN UNCHANGED selected_fw
       ELSE ~ HasDate(Selected) /\ selected_fw' = Selected
  /\ Uncaught
  /\ UNCHANGED << mainVars, callVars, requests, payload, firmwares, fw_dir,
                  calls, stdout, fileVars >>

\* lines 303-312 and 324
SelectionLines ==
  << IF FirmwareArgGiven
       THEN "Downloading firmware for {device_name}: {fileName} ({date})"
       ELSE "Downloading firmware for {device_name}: {fileName} ({date}) [LATEST]",
     "Saving to: {out_path}" >>

\* lines 302-325: the record is chosen, fw/<device_name> is made, and
\* download() issues its request
SelectAndDownload ==
  /\ CanSelect
  /\ Len(firmwares) > 0
  /\ HasDate(Selected)
  /\ selected_fw' = Selected
  /\ fw_dir' = TRUE
  /\ Output(SelectionLines)
  /\ calls' = Append(calls, "download")
  /\ BeginRequest("GET")
  /\ UNCHANGED << mainVars, requests, payload, firmwares, exitVars, fileVars >>

(***************************************************************************)
(* download, lines 240-271, and the end of main.  A chunk is a sequence of *)
(* bytes; the header of the response, the chunks iter_content yields and   *)
(* the failures of the file system are the inputs.                         *)
(***************************************************************************)
AfterDownloadRequest == method = "GET" /\ pc \in {"response", "raised"}

\* lines 241-251: the request raised, or raise_for_status() did
DownloadRequestFailed ==
  /\ AfterDownloadRequest
  /\ pc = "response" => RaisesForStatus(last.status)
  /\ Output(<< "Download failed: {e}" >>)
  /\ Exit(1)
  /\ UNCHANGED << mainVars, callVars, requests, listVars, calls, fileVars >>

DownloadResponseOk == method = "GET" /\ pc = "response" /\ ~ RaisesForStatus(last.status)

\* if length: on the header (None and "" are false, "0" is not)
HeaderGiven(h) == h.kind \in {"int", "bad"}

\* if length: in the loop, on int(length) or on the header that was not given
LengthKnown(l) == l.kind = "int" /\ l.value # 0

Max(x, y) == IF x >= y THEN x ELSE y

MinBlockSize == 4096

ProgressUpdates == 20

DefaultBlockSize == 1000000

\* the block size, were the floor a ceiling
BlockSize_Capped(h) ==
  IF HeaderGiven(h) THEN Min(MinBlockSize, h.value \div ProgressUpdates) ELSE DefaultBlockSize

\* lines 254-258: block_size = max(4096, length // 20), or 1_000_000
BlockSize(h) ==
  IF HeaderGiven(h) THEN Max(MinBlockSize, h.value \div ProgressUpdates) ELSE DefaultBlockSize

\* open(file_name, "wb"), were the mode "ab"
OpenWb_Appends(old) == FileOf(old.bytes)

\* open(file_name, "wb") creates the file or truncates it
OpenWb(old) == FileOf(<< >>)

\* leaving the with block, were the file closed by a close() after the loop
WithExit_AfterLoopOnly(h, raised) == IF raised THEN h ELSE "closed"

\* leaving the with block closes the file, whether or not an exception
\* (raised) leaves it
WithExit(h, raised) == "closed"

\* an exception in the with block, were it caught and the loop left
RaisedInStream_Swallowed ==
  /\ Output(<< "Download complete.", "Saved to: {out_path}" >>)
  /\ Exit(0)

\* an exception in the with block leaves download and main: nothing is
\* printed, nothing catches it
RaisedInStream ==
  /\ UNCHANGED stdout
  /\ Uncaught

\* line 257: int(length) raises ValueError
DownloadBadLength(headers) ==
  /\ DownloadResponseOk
  /\ \E h \in headers :
       /\ h.kind = "bad"
       /\ length' = h
       /\ io_error' = "ValueError"
       /\ Uncaught
       /\ UNCHANGED << mainVars, callVars, requests, listVars, calls, stdout,
                       block_size, f, file, size, received >>

\* lines 253-260: open raises OSError
DownloadOpenFails(headers) ==
  /\ DownloadResponseOk
  /\ \E h \in headers :
       /\ h.kind # "bad"
       /\ length' = h
       /\ block_size' = BlockSize(h)
       /\ io_error' = "OSError"
       /\ Uncaught
       /\ UNCHANGED << mainVars, callVars, requests, listVars, calls, stdout,
                       f, file, size, received >>

\* lines 253-261: the file is open and empty, the loop is about to start
DownloadOpens(headers) ==
  /\ DownloadResponseOk
  /\ \E h \in headers :
       /\ h.kind # "bad"
       /\ length' = h
       /\ block_size' = BlockSize(h)
       /\ f' = "open"
       /\ file' = OpenWb(file)
       /\ size' = 0
       /\ pc' = "stream"
       /\ UNCHANGED << mainVars, callVars, requests, listVars, exitVars, calls,
                       stdout, received, io_error >>

Streaming == pc = "stream"

\* lines 267-269
ProgressLines == IF LengthKnown(length) THEN << "Downloading: {percent}%" >> ELSE << >>

\* lines 262-269: a chunk is written
StreamWrites(chunks, most) ==
  /\ Streaming
  /\ Len(received) < most
  /\ \E c \in chunks :
       /\ c # << >>
       /\ received' = Append(received, c)
       /\ file' = FileOf(file.bytes \o c)
       /\ size' = size + Len(c)
       /\ Output(ProgressLines)
       /\ UNCHANGED << pc, mainVars, callVars, requests, listVars, exitVars, calls,
                       length, block_size, f, io_error >>

\* line 265: f.write raises OSError, some of the chunk written or none
StreamWriteFails(chunks, most) ==
  /\ Streaming
  /\ Len(received) < most
  /\ \E c \in chunks :
       /\ c # << >>
       /\ received' = Append(received, c)
       /\ \E k \in 0..Len(c) : file' = FileOf(file.bytes \o SubSeq(c, 1, k))
       /\ io_error' = "OSError"
       /\ f' = WithExit(f, TRUE)
       /\ RaisedInStream
       /\ UNCHANGED << mainVars, callVars, requests, listVars, calls,
                       length, block_size, size >>

\* line 262: iter_content raises (the connection broke)
StreamReadFails ==
  /\ Streaming
  /\ io_error' = "ChunkedEncodingError"
  /\ f' = WithExit(f, TRUE)
  /\ RaisedInStream
  /\ UNCHANGED << mainVars, callVars, requests, listVars, calls,
                  length, block_size, file, size, received >>

\* lines 271 and 326: download returns and main prints where the file is
Completes ==
  /\ f' = WithExit(f, FALSE)
  /\ Output(<< "Download complete.", "Saved to: {out_path}" >>)
  /\ Exit(0)
  /\ UNCHANGED << mainVars, callVars, requests, listVars, calls,
                  length, block_size, file, size, io_error >>

\* lines 263-264: an empty chunk ends the loop
StreamEmptyChunk(chunks) ==
  /\ Streaming
  /\ << >> \in chunks
  /\ received' = Append(received, << >>)
  /\ Completes

\* line 262: the iterator is exhausted
StreamExhausted ==
  /\ Streaming
  /\ UNCHANGED received
  /\ Completes

\* line 260: the loop is over and closing the file raises OSError (the
\* buffered bytes cannot be written): some of what was written is lost
StreamCloseFails ==
  /\ Streaming
  /\ io_error' = "OSError"
  /\ f' = WithExit(f, TRUE)
  /\ \E k \in 0..Len(file.bytes) : file' = FileOf(SubSeq(file.bytes, 1, k))
  /\ RaisedInStream
  /\ UNCHANGED << mainVars, callVars, requests, listVars, calls,
                  length, block_size, size, received >>

\* download once request_with_retry is over, for a header among headers and
\* at most `most` chunks among chunks
download(headers, chunks, most) ==
  \/ DownloadRequestFailed
  \/ DownloadBadLength(headers)
  \/ DownloadOpenFails(headers)
  \/ DownloadOpens(headers)
  \/ StreamWrites(chunks, most)
  \/ StreamWriteFails(chunks, most)
  \/ StreamReadFails
  \/ StreamEmptyChunk(chunks)
  \/ StreamExhausted
  \/ StreamCloseFails

(***************************************************************************)
(* Inputs.                                                                 *)
(***************************************************************************)
\* every fragment of a catalog key of at most MaxQueryLen characters
Fragments ==
  UNION {{SubSeq(currentValidKeys[n], i, j) :
            i \in 1..Len(currentValidKeys[n]),
            j \in 1..Len(currentValidKeys[n])} \ {<< >>} : n \in KeyIndexes}

ShortFragments == {q \in Fragments : Len(q) <= MaxQueryLen}

CatalogKeys == {currentValidKeys[n] : n \in KeyIndexes}

\* misspellings and a name related to no key
OtherQueries ==
  { <<"M","i","c","r","o">>, <<"N","E","G","E","O">>, <<"P","r","o","2">>,
    <<"z","z","z">>, <<"q">> }

\* the queries resolve_device is checked on: keys, their fragments, the other
\* queries, and each of them in lower and in upper case
Queries ==
  UNION {{q, Lower(q), Upper(q)} : q \in CatalogKeys \cup ShortFragments \cup OtherQueries}

\* the queries of whole runs: none, an exact key that other keys contain, a
\* key in another case, a fragment of one key, a fragment of several keys, a
\* name related to no key
MainQueries ==
  { NoName,
    <<"U","l","t","i","m","a","t","e">>,
    <<"m","3","0">>,
    <<"S","a","t","u","r","n">>,
    <<"P","r","o">>,
    <<"z","z","z">> }

FirmwareArgs == {NoFirmwareArg} \cup {FirmwareArg(i) : i \in (0 - 1)..MaxFirmwareArg}

MainEntries ==
  { DictEntry([has_date |-> FALSE, date |-> 0]),
    DictEntry([has_date |-> TRUE, date |-> 1]),
    EncodedEntry([has_date |-> TRUE, date |-> 0]),
    BadString }

MainPayloads ==
  OtherPayloads \cup {ListPayload(l) : l \in SeqsUpTo(MainEntries, MainMaxEntries)}

\* the chunks of a download stream: the empty chunk and two others
ChunkValues == { << >>, << 1 >>, << 2, 1 >> }

MainChunkValues == { << >>, << 1 >> }

\* content-length values: negative, zero, small, around the length whose
\* twentieth is the least block size, and large
Lengths ==
  { 0 - 20, 0, 1, 3,
    MinBlockSize * ProgressUpdates - 1, MinBlockSize * ProgressUpdates,
    MinBlockSize * ProgressUpdates + 19, MinBlockSize * ProgressUpdates + 20,
    100000, 20 * DefaultBlockSize + 20 }

Headers == {NoHeader, EmptyHeader, BadHeader} \cup {IntHeader(n) : n \in Lengths}

MainHeaders == {NoHeader, BadHeader, IntHeader(3)}

RECURSIVE Flatten(_)
Flatten(cs) == IF cs = << >> THEN << >> ELSE Head(cs) \o Flatten(Tail(cs))

\* out_path before download is called: absent, or what an earlier download
\* of a stream of at most MaxChunks chunks has left there
PreviousFiles ==
  {NoFile} \cup {FileOf(Flatten(cs)) : cs \in SeqsUpTo(ChunkValues \ {<< >>}, MaxChunks)}

(***************************************************************************)
(* Specifications.                                                         *)
(***************************************************************************)
\* max_retries=5, backoff=1: the defaults, which both callers use
DefaultMaxRetries == 5

DefaultBackoff == 1

InitWith(a) ==
  /\ pc = "main"
  /\ args = a
  /\ device_name = NoName
  /\ device_type = 0
  /\ suggestions = 0
  /\ method = "none"
  /\ max_retries = DefaultMaxRetries
  /\ backoff = DefaultBackoff
  /\ attempt = 0
  /\ sleeps = << >>
  /\ last = NoOutcome
  /\ requests = [m \in {"POST", "GET"} |-> 0]
  /\ payload = NoPayload
  /\ firmwares = << >>
  /\ selected_fw = NoRecord
  /\ fw_dir = FALSE
  /\ exit_code = 0
  /\ traceback = FALSE
  /\ calls = << >>
  /\ stdout = << >>
  /\ length = NoHeader
  /\ block_size = 0
  /\ f = "none"
  /\ file = NoFile
  /\ size = 0
  /\ received = << >>
  /\ io_error = "none"

\* a whole run of main
Init ==
  \E a \in [list_devices : BOOLEAN, device : MainQueries,
            list_firmware : BOOLEAN, firmware : FirmwareArgs] : InitWith(a)

Next ==
  \/ ListDevices
  \/ MissingDevice
  \/ ResolveFound
  \/ ResolveNotFound
  \/ request_with_retry
  \/ fetch_firmware(MainPayloads)
  \/ ListFirmware
  \/ InvalidIndex
  \/ SelectRaises
  \/ SelectAndDownload
  \/ download(MainHeaders, MainChunkValues, MainMaxChunks)

Spec == Init /\ [][Next]_vars

\* resolve_device on every query of Queries
InitResolve ==
  \E q \in Queries :
    InitWith([list_devices |-> FALSE, device |-> q,
              list_firmware |-> FALSE, firmware |-> NoFirmwareArg])

NextResolve == ResolveFound \/ ResolveNotFound

SpecResolve == InitResolve /\ [][NextResolve]_vars
\* where a call of request_with_retry(m, max_retries=r, backoff=b) starts from
InitCall(m, r, b) ==
  /\ pc = "request"
  /\ args = [list_devices |-> FALSE, device |-> <<"M","3","0">>,
             list_firmware |-> FALSE, firmware |-> NoFirmwareArg]
  /\ device_name = <<"M","3","0">>
  /\ device_type = CodeOf(<<"M","3","0">>)
  /\ suggestions = 0
  /\ method = m
  /\ max_retries = r
  /\ backoff = b
  /\ attempt = 1
  /\ sleeps = << >>
  /\ last = NoOutcome
  /\ requests = [x \in {"POST", "GET"} |-> 0]
  /\ payload = NoPayload
  /\ firmwares = << >>
  /\ selected_fw = NoRecord
  /\ fw_dir = FALSE
  /\ exit_code = 0
  /\ traceback = FALSE
  /\ calls = << "resolve_device", "fetch_firmware" >>
  /\ stdout = << >>
  /\ length = NoHeader
  /\ block_size = 0
  /\ f = "none"
  /\ file = NoFile
  /\ size = 0
  /\ received = << >>
  /\ io_error = "none"

\* request_with_retry for every max_retries and backoff within the bounds
InitRetry ==
  \E r \in 1..MaxRetriesBound, b \in 1..MaxBackoff : InitCall("POST", r, b)

SpecRetry == InitRetry /\ [][request_with_retry]_vars

\* the same under the program's scheduling: a single thread that runs the
\* loop on, every requests.request returning or raising (the callers pass a
\* timeout)
SpecRetryFair == SpecRetry /\ WF_vars(request_with_retry)

\* fetch_firmware from the moment the listing request has returned a 200
InitFetch ==
  /\ pc = "response"
  /\ args = [list_devices |-> FALSE, device |-> <<"M","3","0">>,
             list_firmware |-> FALSE, firmware |-> NoFirmwareArg]
  /\ device_name = <<"M","3","0">>
  /\ device_type = CodeOf(<<"M","3","0">>)
  /\ suggestions = 0
  /\ method = "POST"
  /\ max_retries = DefaultMaxRetries
  /\ backoff = DefaultBackoff
  /\ attempt = 1
  /\ sleeps = << >>
  /\ last \in {Responds(s) : s \in {x \in Statuses : x < ServerErrorFloor}}
  /\ requests = [x \in {"POST", "GET"} |-> IF x = "POST" THEN 1 ELSE 0]
  /\ payload = NoPayload
  /\ firmwares = << >>
  /\ selected_fw = NoRecord
  /\ fw_dir = FALSE
  /\ exit_code = 0
  /\ traceback = FALSE
  /\ calls = << "resolve_device", "fetch_firmware" >>
  /\ stdout = << >>
  /\ length = NoHeader
  /\ block_size = 0
  /\ f = "none"
  /\ file = NoFile
  /\ size = 0
  /\ received = << >>
  /\ io_error = "none"

NextFetch == fetch_firmware(Payloads)

SpecFetch == InitFetch /\ [][NextFetch]_vars

\* download from its call by main, a record with a date having been
\* selected as the latest, for every earlier state of out_path
InitDownload ==
  /\ pc = "request"
  /\ args = [list_devices |-> FALSE, device |-> <<"M","3","0">>,
             list_firmware |-> FALSE, firmware |-> NoFirmwareArg]
  /\ device_name = <<"M","3","0">>
  /\ device_type = CodeOf(<<"M","3","0">>)
  /\ suggestions = 0
  /\ method = "GET"
  /\ max_retries = DefaultMaxRetries
  /\ backoff = DefaultBackoff
  /\ attempt = 1
  /\ sleeps = << >>
  /\ last = NoOutcome
  /\ requests = [x \in {"POST", "GET"} |-> IF x = "POST" THEN 1 ELSE 0]
  /\ payload = ListPayload(<< DictEntry([has_date |-> TRUE, date |-> 1]) >>)
  /\ firmwares = SortByDateDescending(Normalise(payload.list))
  /\ selected_fw = firmwares[1]
  /\ fw_dir = TRUE
  /\ exit_code = 0
  /\ traceback = FALSE
  /\ calls = << "resolve_device", "fetch_firmware", "download" >>
  /\ stdout = << "Downloading firmware for {device_name}: {fileName} ({date}) [LATEST]",
                 "Saving to: {out_path}" >>
  /\ length = NoHeader
  /\ block_size = 0
  /\ f = "none"
  /\ file \in PreviousFiles
  /\ size = 0
  /\ received = << >>
  /\ io_error = "none"

NextDownload == request_with_retry \/ download(Headers, ChunkValues, MaxChunks)

SpecDownload == InitDownload /\ [][NextDownload]_vars

(***************************************************************************)
(* Properties of request_with_retry.                                       *)
(***************************************************************************)
\* a transient failure: a timeout, a connection failure, a status >= 500
Transient(o) ==
  \/ o.exc \in {"Timeout", "ConnectionError"}
  \/ o.exc = "none" /\ o.status >= 500

\* a response the call has to return
Returnable(o) == o.exc = "none" /\ o.status > 0 /\ o.status < 500

ClientError(o) == o.exc = "none" /\ o.status >= 400 /\ o.status < 500

\* a step that issues a request
IssuesRequest == \E m \in {"POST", "GET"} : requests'[m] = requests[m] + 1

\* s is b, 2b, 4b, ...: b * 2^(n-1) at position n
IsBackoffSchedule(s, b) ==
  \A n \in 1..Len(s) : s[n] = IF n = 1 THEN b ELSE 2 * s[n - 1]

RECURSIVE SumSeq(_)
SumSeq(s) == IF s = << >> THEN 0 ELSE s[1] + SumSeq(Tail(s))

\* the call that has made attempt - 1 failed attempts has slept attempt - 1
\* times, on the schedule
SleptOnSchedule ==
  /\ Len(sleeps) = attempt - 1
  /\ IsBackoffSchedule(sleeps, backoff)

\* C1: when the first k attempts (0 <= k < max_retries) fail transiently and
\* attempt k+1 yields a status below 500, the call returns that response
\* without a further sleep, and the sleeps performed are exactly
\* backoff*2^0, ..., backoff*2^(k-1) in that order.
C1_ReturnsAfterBackoff ==
  /\ [](pc \in {"request", "response"} /\ attempt >= 1 =>
          /\ SleptOnSchedule
          /\ pc = "request" => requests[method] = attempt - 1
          /\ pc = "response" =>
               /\ Returnable(last)
               /\ requests[method] = attempt
               /\ attempt <= max_retries)
  /\ [][pc = "request" /\ IssuesRequest /\ Returnable(last') =>
          /\ pc' = "response"
          /\ sleeps' = sleeps
          /\ attempt' = attempt]_vars

\* four transient failures, then a response at the fifth attempt of five:
\* the delays sum to backoff * (1 + 2 + 4 + 8)
C1_Witness ==
  /\ pc = "response"
  /\ max_retries = 5
  /\ attempt = 5
  /\ sleeps = << backoff, 2 * backoff, 4 * backoff, 8 * backoff >>
  /\ SumSeq(sleeps) = backoff * 15
  /\ last.status = 200

\* C2: after max_retries consecutive transient failures the call raises the
\* failure of the last attempt, having issued exactly max_retries requests
\* and slept exactly max_retries - 1 times: none after the final attempt.
C2_ExhaustedRaises ==
  /\ [](pc = "raised" /\ Transient(last) =>
          /\ attempt = max_retries
          /\ requests[method] = max_retries
          /\ Len(sleeps) = max_retries - 1
          /\ IsBackoffSchedule(sleeps, backoff))
  /\ [][pc = "request" /\ attempt = max_retries /\ IssuesRequest /\ Transient(last') =>
          /\ pc' = "raised"
          /\ sleeps' = sleeps]_vars

C2_Witness ==
  /\ pc = "raised"
  /\ max_retries = 5
  /\ requests[method] = 5
  /\ Len(sleeps) = 4
  /\ last.exc = "none"
  /\ last.status = 503

\* C3: a 4xx response to the listing or the download request is returned to
\* the caller and never retried: no sleep and no further request follows it
\* (one request and no sleep in all when it answers the first attempt), and
\* the only step the run then takes is to exit with status 1, the listing
\* having produced no records and no download request.
C3_ClientErrorIsFatal ==
  /\ [](ClientError(last) =>
          /\ pc \in {"response", "exit"}
          /\ requests[method] = attempt
          /\ Len(sleeps) = attempt - 1
          /\ attempt = 1 => requests[method] = 1 /\ sleeps = << >>
          /\ pc = "exit" => exit_code = 1 /\ ~ traceback
          /\ method = "POST" => requests["GET"] = 0 /\ firmwares = << >> /\ ~ fw_dir)
  /\ [][ClientError(last) /\ pc = "response" =>
          /\ pc' = "exit"
          /\ exit_code' = 1
          /\ requests' = requests
          /\ sleeps' = sleeps]_vars
  /\ [][pc = "request" /\ IssuesRequest /\ ClientError(last') =>
          pc' = "response" /\ sleeps' = sleeps]_vars

\* a 404 to the first download request: one GET, no sleep, exit status 1
C3_Witness ==
  /\ pc = "exit"
  /\ method = "GET"
  /\ last = Responds(404)
  /\ requests["GET"] = 1
  /\ sleeps = << >>
  /\ exit_code = 1

(***************************************************************************)
(* Properties of resolve_device.                                           *)
(***************************************************************************)
\* the query of the run, and how resolve_device left it
Query == args.device

ResolveDone == pc # "main" /\ ~ args.list_devices /\ Query # NoName

ResolveReturned == ResolveDone /\ device_name # NoName

ResolveFailed ==
  /\ pc = "exit"
  /\ exit_code = 1
  /\ device_name = NoName
  /\ requests["POST"] = 0

\* key k contains q, letter case ignored
ContainsIgnoringCase(k, q) == Contains(Lower(k), Lower(q))

KeysContaining(q) == {i \in KeyIndexes : ContainsIgnoringCase(currentValidKeys[i], q)}

EqualsKeyUpToCase(q) == \E i \in KeyIndexes : Lower(currentValidKeys[i]) = Lower(q)

\* no exact, case-insensitive or unique partial match: the approximate step
ReachesFuzzyStep(q) ==
  /\ q \notin CatalogKeys
  /\ ~ EqualsKeyUpToCase(q)
  /\ Cardinality(KeysContaining(q)) # 1

\* C4: whatever resolve_device returns is a catalog key that contains the
\* query (letter case ignored), with the catalog's code for it; a resolution
\* that reaches the approximate-match step always fails, close matches or not.
C4_NoFuzzySelection ==
  /\ ResolveReturned =>
       \E i \in KeyIndexes :
          /\ currentValidKeys[i] = device_name
          /\ currentValidCodes[i] = device_type
          /\ ContainsIgnoringCase(device_name, Query)
  /\ ResolveDone /\ ReachesFuzzyStep(Query) => ResolveFailed
  /\ suggestions > 0 => ResolveFailed

\* close matches were found and printed, and nothing was selected
C4_Witness ==
  /\ ResolveFailed
  /\ ReachesFuzzyStep(Query)
  /\ suggestions > 0
  /\ Cardinality(KeysContaining(Query)) = 0

\* C5 as stated: a query contained in exactly one key resolves to it, and a
\* query contained in two or more keys fails, whatever else it equals.
C5_Original ==
  ResolveDone =>
    /\ Cardinality(KeysContaining(Query)) = 1 =>
         ResolveReturned /\ KeysContaining(Query) = {KeyIndex(device_name)}
    /\ Cardinality(KeysContaining(Query)) >= 2 => ResolveFailed

\* C5 amended: a query contained in exactly one key resolves to it; a query
\* contained in two or more keys that equals no key, exactly or up to letter
\* case, fails.
C5_UniquePartialMatch ==
  ResolveDone =>
    /\ Cardinality(KeysContaining(Query)) = 1 =>
         ResolveReturned /\ KeysContaining(Query) = {KeyIndex(device_name)}
    /\ Cardinality(KeysContaining(Query)) >= 2 /\ ~ EqualsKeyUpToCase(Query) =>
         ResolveFailed

\* a fragment of several keys that is no key itself is refused
C5_Witness ==
  /\ ResolveFailed
  /\ Query = <<"P","r","o">>
  /\ Cardinality(KeysContaining(Query)) >= 2

\* C6: a name that is a key of the catalog resolves to itself and its code,
\* however many other keys contain it.
C6_ExactMatchFirst ==
  ResolveDone /\ Query \in CatalogKeys =>
    /\ pc = "request"
    /\ device_name = Query
    /\ device_type = currentValidCodes[KeyIndex(Query)]

\* "Ultimate" is a key that eleven other keys contain
C6_Witness ==
  /\ pc = "request"
  /\ Query = <<"U","l","t","i","m","a","t","e">>
  /\ device_name = Query
  /\ device_type = 42
  /\ Cardinality(KeysContaining(Query)) = 12

\* C7: a query that differs from a key only by letter case resolves to that
\* key and its code, however many other keys contain it.
C7_CaseInsensitiveMatch ==
  ResolveDone =>
    \A i \in KeyIndexes :
       Lower(currentValidKeys[i]) = Lower(Query) =>
         /\ pc = "request"
         /\ device_name = currentValidKeys[i]
         /\ device_type = currentValidCodes[i]

\* "n30" is "N30" in another case, and eight keys contain it
C7_Witness ==
  /\ pc = "request"
  /\ Query = <<"n","3","0">>
  /\ device_name = <<"N","3","0">>
  /\ device_type = 18
  /\ Cardinality(KeysContaining(Query)) = 8

(***************************************************************************)
(* Properties of fetch_firmware.                                           *)
(***************************************************************************)
\* an entry that is an object, or a string that decodes to one
Keepable(e) == e.type = "dict" \/ (e.type = "str" /\ e.decodes = "dict")

KeptPositions(l) == {i \in 1..Len(l) : Keepable(l[i])}

IsListPayload == payload.kind = "list"

\* a record's date, 0 when it has none
DateOrZero(fw) == IF fw.has_date THEN fw.date ELSE 0

\* C8: normalisation keeps exactly the entries that are objects or strings
\* that decode to an object, each as the object it is or encodes, in their
\* order in the list; every other entry is dropped, and as long as one entry
\* is kept the listing does not fail: the records returned are the kept ones.
C8_NormalisationKeepsObjects ==
  IsListPayload =>
    LET l == payload.list
        n == Normalise(l)
    IN  /\ Len(n) = Cardinality(KeptPositions(l))
        /\ {n[k].src : k \in 1..Len(n)} = KeptPositions(l)
        /\ \A k \in 1..(Len(n) - 1) : n[k].src < n[k + 1].src
        /\ \A k \in 1..Len(n) :
             /\ n[k].has_date = l[n[k].src].has_date
             /\ n[k].date = l[n[k].src].date
        /\ KeptPositions(l) # {} =>
             /\ pc = "select"
             /\ Len(firmwares) = Len(n)
             /\ {firmwares[k] : k \in 1..Len(firmwares)} = {n[k] : k \in 1..Len(n)}

\* of three entries a string that is not JSON is dropped and a string that
\* encodes an object is kept
C8_Witness ==
  /\ pc = "select"
  /\ IsListPayload
  /\ Len(payload.list) = 3
  /\ Len(firmwares) = 2
  /\ payload.list[1] = BadString
  /\ payload.list[2].type = "str"
  /\ payload.list[3].type = "dict"

\* C9: the records returned are in descending order of date, a record
\* without a date counting as 0, and records of equal date are in the order
\* they had in the response.
C9_SortedDescendingStable ==
  pc = "select" =>
    \A i, j \in 1..Len(firmwares) :
       i < j =>
         /\ DateOrZero(firmwares[i]) >= DateOrZero(firmwares[j])
         /\ DateOrZero(firmwares[i]) = DateOrZero(firmwares[j]) =>
              firmwares[i].src < firmwares[j].src

\* the sort moved the last entry to the front and left a record without a
\* date and a record dated 0 in their order
C9_Witness ==
  /\ pc = "select"
  /\ Len(firmwares) = 3
  /\ firmwares[1].src = 3
  /\ firmwares[2].src = 1
  /\ firmwares[3].src = 2
  /\ firmwares[1].date = 1
  /\ ~ firmwares[2].has_date
  /\ firmwares[3].has_date
  /\ firmwares[3].date = 0

\* the run has not gone past the listing
NothingSelected ==
  /\ selected_fw = NoRecord
  /\ requests["GET"] = 0
  /\ ~ fw_dir

\* C10: fetch_firmware never returns an empty sequence; when the list is
\* empty or every entry of it is dropped, the run exits with status 1 and
\* neither selects a record nor issues a download.
C10_NeverEmptyListing ==
  /\ pc = "select" \/ method = "GET" => Len(firmwares) > 0
  /\ IsListPayload /\ KeptPositions(payload.list) = {} =>
       /\ pc = "exit"
       /\ exit_code = 1
       /\ ~ traceback
       /\ firmwares = << >>
       /\ NothingSelected
  /\ firmwares = << >> => NothingSelected

\* a list whose every entry is dropped
C10_Witness ==
  /\ pc = "exit"
  /\ exit_code = 1
  /\ IsListPayload
  /\ Len(payload.list) = 2
  /\ KeptPositions(payload.list) = {}
  /\ NothingSelected
(***************************************************************************)
(* Properties of the failures of a run.                                    *)
(***************************************************************************)
Printed(line) == \E i \in DOMAIN stdout : stdout[i] = line

\* the lines that tell the user why the run failed; the lines of
\* request_with_retry are progress notes
Diagnostics ==
  { "Error: --device is required (unless --list-devices)",
    "Device not found. Did you mean:",
    "Device not found. Use --list-devices to see valid names.",
    "API request failed: {e}",
    "API returned invalid JSON.",
    "Unexpected API response format.",
    "Firmware list is empty.",
    "Invalid firmware index.",
    "Download failed: {e}" }

NumDiagnostics == Cardinality({i \in DOMAIN stdout : stdout[i] \in Diagnostics})

\* the request has failed: it raised, or its response has a status that
\* raise_for_status() raises for
FailedOutcome(o) == o.exc # "none" \/ o.status >= 400

ResolutionFailed == pc = "exit" /\ calls = << "resolve_device" >>

\* the listing request failed, or its payload was invalid or empty
ListingFailed ==
  /\ pc = "exit"
  /\ calls = << "resolve_device", "fetch_firmware" >>
  /\ firmwares = << >>

DownloadRequestHasFailed == pc = "exit" /\ method = "GET" /\ FailedOutcome(last)

StreamHasFailed == pc = "exit" /\ io_error = "ChunkedEncodingError"

FileHasFailed == pc = "exit" /\ io_error = "OSError"

TerminalFailure ==
  \/ ResolutionFailed
  \/ ListingFailed
  \/ DownloadRequestHasFailed
  \/ StreamHasFailed
  \/ FileHasFailed

\* C11: every terminal failure (of the resolution, of the listing request,
\* an invalid or empty payload, of the download request, of the transport
\* while the body is streamed, of opening or writing the destination file)
\* ends the run with a non-zero status, one diagnostic line and no stack
\* trace.
C11_FailuresAreReported ==
  TerminalFailure => exit_code # 0 /\ ~ traceback /\ NumDiagnostics = 1

(***************************************************************************)
(* Properties of download.                                                 *)
(***************************************************************************)
ReportsSuccess == Printed("Download complete.") \/ Printed("Saved to: {out_path}")

\* C12: a failed download never reports success.  While the outcome of the
\* download request is a failure (retries exhausted, an exception, a 4xx)
\* the destination file is not opened nor touched and neither "Download
\* complete." nor "Saved to" is printed; once the stream, the file or the
\* header has failed after the request, neither line is printed either.
C12_FailedDownloadNotReported ==
  /\ [](method = "GET" /\ pc \in {"raised", "response", "exit"} /\ FailedOutcome(last) =>
          f = "none" /\ ~ ReportsSuccess)
  /\ [](io_error # "none" => ~ ReportsSuccess /\ pc = "exit" /\ exit_code # 0)
  /\ [][method = "GET" /\ FailedOutcome(last') => file' = file /\ f' = "none"]_vars

\* the stream breaks after a chunk was written
C12_Witness ==
  /\ pc = "exit"
  /\ io_error = "ChunkedEncodingError"
  /\ Len(received) >= 1
  /\ size >= 1
  /\ file.bytes = Flatten(received)
  /\ f = "closed"
  /\ ~ ReportsSuccess

\* C13: once download has read the headers and opened the file, block_size
\* is max(4096, L div 20) when content-length is present with value L (5000
\* for L = 100000, 4096 for every L < 81920, 0 included) and exactly
\* 1000000 when the header is absent.
C13_BlockSizePolicy ==
  f # "none" =>
    /\ length.kind = "int" =>
         /\ block_size >= 4096
         /\ block_size >= length.value \div 20
         /\ block_size = 4096 \/ block_size = length.value \div 20
         /\ length.value = 100000 => block_size = 5000
         /\ length.value < 81920 => block_size = 4096
    /\ length.kind = "absent" => block_size = 1000000

\* the file is open for a body announced as 100000 bytes
C13_Witness ==
  /\ pc = "stream"
  /\ f = "open"
  /\ length = IntHeader(100000)
  /\ block_size = 5000

(***************************************************************************)
(* Properties of the selection and of the order of the steps.              *)
(***************************************************************************)
\* the run is past the selection of a record
PastSelection ==
  /\ ~ args.list_firmware
  /\ firmwares # << >>
  /\ pc # "select"

\* C14: with --firmware i, the record selected is the i-th of the sorted
\* listing when 1 <= i <= len(firmwares); for every other i (0, negative,
\* too large) the run ends with a non-zero status and "Invalid firmware
\* index.", no record selected and no download issued; only without
\* --firmware is the first record selected as the latest.
C14_IndexSelectsRecord ==
  /\ PastSelection /\ args.firmware.given =>
       IF 1 <= args.firmware.value /\ args.firmware.value <= Len(firmwares)
         THEN selected_fw = firmwares[args.firmware.value]
         ELSE /\ selected_fw = NoRecord
              /\ requests["GET"] = 0
              /\ ~ fw_dir
              /\ pc = "exit"
              /\ exit_code # 0
              /\ Printed("Invalid firmware index.")
  /\ Printed("Downloading firmware for {device_name}: {fileName} ({date}) [LATEST]") =>
       ~ args.firmware.given

Order == << "resolve_device", "fetch_firmware", "download" >>

IsPrefix(s, t) == Len(s) <= Len(t) /\ \A i \in 1..Len(s) : s[i] = t[i]

Called(fn) == \E i \in DOMAIN calls : calls[i] = fn

NothingOnDisk == ~ fw_dir /\ f = "none" /\ file = NoFile

\* C15: main calls resolve_device, fetch_firmware and download in this
\* order, each at most once.  A listing request is issued only after the
\* resolution returned a catalog key, a download request only after a
\* non-empty listing was returned and one of its records selected, and after
\* the last listing request.  Nothing is created under fw/ and no download is
\* issued before download is called, nor at all when the resolution or the
\* listing fails or the run is --list-devices or --list-firmware.
C15_StepsInOrder ==
  /\ [](IsPrefix(calls, Order))
  /\ [](requests["POST"] > 0 =>
          Called("fetch_firmware") /\ InCatalog(device_name) /\ device_type = CodeOf(device_name))
  /\ [](requests["GET"] > 0 =>
          /\ Called("download")
          /\ requests["POST"] > 0
          /\ Len(firmwares) > 0
          /\ \E i \in 1..Len(firmwares) : selected_fw = firmwares[i])
  /\ [](~ Called("download") => NothingOnDisk /\ requests["GET"] = 0)
  /\ [](args.list_devices \/ args.list_firmware \/ ResolutionFailed \/ ListingFailed =>
          ~ Called("download") /\ NothingOnDisk /\ requests["GET"] = 0)
  /\ [][requests'["POST"] # requests["POST"] => requests["GET"] = 0 /\ ~ Called("download")]_vars

\* a run that went through the three steps and saved the file
C15_Witness ==
  /\ pc = "exit"
  /\ calls = Order
  /\ requests["POST"] >= 1
  /\ requests["GET"] >= 1
  /\ fw_dir
  /\ file.exists
  /\ Printed("Saved to: {out_path}")

(***************************************************************************)
(* Properties of the destination file.                                     *)
(***************************************************************************)
\* C16: the file object is open only while the loop of download runs: once
\* download has returned or raised (the stream exhausted, an empty chunk, a
\* failure to read or to write in the middle of the stream) it is closed,
\* and it stays closed.
C16_HandleClosedOnExit ==
  /\ [](f = "open" => pc = "stream")
  /\ [](pc = "stream" => f = "open")
  /\ [](pc = "exit" => f \in {"none", "closed"})
  /\ [][pc = "stream" /\ pc' # "stream" => f' = "closed"]_vars
  /\ [][f = "closed" => f' = "closed"]_vars

\* the write of the second chunk failed
C16_Witness ==
  /\ pc = "exit"
  /\ f = "closed"
  /\ io_error = "OSError"
  /\ Len(received) = 2
  /\ size = Len(received[1])
  /\ size >= 1

\* the chunks before the first empty one
RECURSIVE BeforeEmpty(_)
BeforeEmpty(cs) ==
  IF cs = << >> \/ Head(cs) = << >>
    THEN << >>
    ELSE << Head(cs) >> \o BeforeEmpty(Tail(cs))

DownloadSucceeded == pc = "exit" /\ exit_code = 0 /\ Printed("Download complete.")

\* C17: after a successful download the file holds exactly the chunks
\* received before the first empty chunk or the end of the stream, in order,
\* whatever was at the path before, and size is its length; so two downloads
\* of the same stream to the same path leave the same bytes.
C17_FileIsTheStream ==
  DownloadSucceeded =>
    /\ file.exists
    /\ file.bytes = Flatten(BeforeEmpty(received))
    /\ size = Len(file.bytes)
    /\ f = "closed"

\* two chunks, then an empty one
C17_Witness ==
  /\ DownloadSucceeded
  /\ received = << << 2, 1 >>, << 1 >>, << >> >>
  /\ file = FileOf(<< 2, 1, 1 >>)
  /\ size = 3

(***************************************************************************)
(* Termination of request_with_retry.                                      *)
(***************************************************************************)
CallEnded == pc \in {"response", "raised"}

ReturnedBelow500 == pc = "response" /\ last.exc = "none" /\ last.status > 0 /\ last.status < 500

\* C18 as stated: at most max_retries requests, and the call ends either
\* by returning a response with a status below 500 or by raising the
\* transient failure of the last attempt.
C18_Original ==
  /\ requests[method] <= max_retries
  /\ CallEnded => ReturnedBelow500 \/ (pc = "raised" /\ Transient(last))

\* C18, amended: for max_retries >= 1 the call ends, after at most
\* max_retries requests, in exactly one of three ways: it returns a
\* response with a status below 500; it raises the transient failure of
\* attempt max_retries; or it raises, at whatever attempt it occurs and
\* without a retry or a sleep after it, a failure of requests.request that is
\* neither a Timeout nor a ConnectionError.  It never returns a response with
\* a status >= 500 and never returns without a response.
C18_TerminatesOneWay ==
  /\ [](requests[method] <= max_retries /\ attempt <= max_retries)
  /\ [](pc \in {"request", "response", "raised"})
  /\ [](pc = "response" => ReturnedBelow500)
  /\ [](pc = "raised" =>
          \/ Transient(last) /\ attempt = max_retries /\ requests[method] = max_retries
          \/ /\ last.exc \notin {"none", "Timeout", "ConnectionError"}
             /\ requests[method] = attempt
             /\ Len(sleeps) = attempt - 1)
  /\ <>CallEnded
  /\ [][CallEnded => UNCHANGED vars]_vars

\* a redirect loop at the second attempt of five: raised at once
C18_Witness ==
  /\ pc = "raised"
  /\ last.exc = "TooManyRedirects"
  /\ max_retries = 5
  /\ attempt = 2
  /\ requests[method] = 2
  /\ Len(sleeps) = 1

=============================================================================
